---- MODULE Spec2Model ----
(***************************************************************************)
(* A model of the battle-ship program (src/src/main.rs): the Board struct  *)
(* with its methods, the input parser get_player_input, and the game loop  *)
(* of main.                                                                *)
(*                                                                         *)
(* The specifications share the definitions of the Board methods:          *)
(*   Spec       main(): both fleets are placed, then the turn loop runs    *)
(*   SpecLive   main() with a fair generator and a player who answers      *)
(*   SpecCount  main() with a player who never fires twice at a cell, the  *)
(*              calls of fire counted                                      *)
(*   SpecFleet  the five place_ship calls of main on one board, with a     *)
(*              wide range of generator outcomes (SpecFleetLive: with a    *)
(*              fair generator)                                            *)
(*   SpecBoard  one Board under arbitrary sequences of method calls        *)
(*   SpecInput  get_player_input reading lines from standard input         *)
(***************************************************************************)
EXTENDS Integers, Sequences, FiniteSets, TLC

VARIABLES
    player_board,    \* main: let mut player_board
    opponent_board,  \* main: let mut opponent_board
    pc,              \* main: source line of the statement main is at
    player_move,     \* main: (player_row, player_col), the last return of get_player_input
    opponent_move,   \* main: (opponent_row, opponent_col)
    result,          \* main: let result = ....fire(..)
    msg,             \* the last message line written to standard output
    shooter,         \* whose shot the last call of fire in main was
    board,           \* SpecBoard: the Board the methods are called on
    call,            \* SpecBoard: the last method call, its arguments and its return value
    fired,           \* SpecBoard: the coordinates fire has been called with
    screen,          \* SpecBoard: what the last method call wrote to standard output
    input,           \* get_player_input: the line its last iteration read
    shots,           \* SpecCount: the number of calls of fire main has made for each side
    stdin            \* SpecInput: the lines standard input still holds

vars == <<player_board, opponent_board, pc, player_move, opponent_move, result,
          msg, shooter, input, shots, board, call, fired, screen, stdin>>

mainVars  == <<player_board, opponent_board, pc, player_move, opponent_move, result,
               msg, shooter, input, shots>>
boardVars == <<board, call, fired, screen>>

----------------------------------------------------------------------------
(* Program constants and types *)

BOARD_SIZE == 10

CellState == {"Empty", "Ship", "Hit", "Miss"}

Index == 0 .. (BOARD_SIZE - 1)

NoMove == <<>>

\* Nothing written to standard output.
NoScreen == [hide_ships |-> FALSE, lines |-> <<>>]

----------------------------------------------------------------------------
(* Bounds of the exploration *)

\* SpecFleet: the generator returns columns in the last ColSpan columns of
\* the grid.
ColSpan == 5

\* SpecBoard: place_ship and can_place_ship are called with sizes up to
\* MaxSize, and place_ship while the board holds fewer than MaxShipCells ship
\* coordinates.
MaxSize == 2
MaxShipCells == 3

\* SpecInput: the lines of standard input have at most MaxLineLen characters
\* before the line terminator.
MaxLineLen == 4

----------------------------------------------------------------------------
(* impl Board *)

\* Board::new
new ==
    [grid  |-> [r \in Index |-> [c \in Index |-> "Empty"]],
     ships |-> <<>>]

\* The cell the loops of place_ship and can_place_ship visit at step i.
CellAt(row, col, direction, i) ==
    IF direction THEN <<row, col + i>> ELSE <<row + i, col>>

\* Variant of AllEmptyFrom with the test "== CellState::Ship" in place of
\* "!= CellState::Empty": cells that are Hit or Miss do not block a ship.
RECURSIVE AllEmptyFrom_only_ship(_, _, _, _, _, _)
AllEmptyFrom_only_ship(self, row, col, size, direction, i) ==
    IF i >= size THEN TRUE
    ELSE LET rc == IF direction THEN <<row, col + i>> ELSE <<row + i, col>>
         IN  IF self.grid[rc[1]][rc[2]] = "Ship" THEN FALSE
             ELSE AllEmptyFrom_only_ship(self, row, col, size, direction, i + 1)

\* The for loop of can_place_ship: false at the first covered cell that is
\* not Empty.
RECURSIVE AllEmptyFrom(_, _, _, _, _, _)
AllEmptyFrom(self, row, col, size, direction, i) ==
    IF i >= size THEN TRUE
    ELSE LET rc == CellAt(row, col, direction, i)
         IN  IF self.grid[rc[1]][rc[2]] # "Empty" THEN FALSE
             ELSE AllEmptyFrom(self, row, col, size, direction, i + 1)

\* Variant of can_place_ship without the loops over the covered cells: only
\* the grid boundary is tested.
can_place_ship_bounds_only(self, row, col, size, direction) ==
    IF direction
    THEN col + size <= BOARD_SIZE
    ELSE row + size <= BOARD_SIZE

\* Variant of can_place_ship with ">=" in place of ">" in the tests of the
\* grid boundary: a ship may not end in the last column or row.
can_place_ship_ge(self, row, col, size, direction) ==
    IF direction
    THEN IF col + size >= BOARD_SIZE THEN FALSE
         ELSE AllEmptyFrom(self, row, col, size, TRUE, 0)
    ELSE IF row + size >= BOARD_SIZE THEN FALSE
         ELSE AllEmptyFrom(self, row, col, size, FALSE, 0)

\* Board::can_place_ship
can_place_ship(self, row, col, size, direction) ==
    IF direction
    THEN IF col + size > BOARD_SIZE THEN FALSE
         ELSE AllEmptyFrom(self, row, col, size, TRUE, 0)
    ELSE IF row + size > BOARD_SIZE THEN FALSE
         ELSE AllEmptyFrom(self, row, col, size, FALSE, 0)

\* Variant of MarkFrom that pushes (row, col) in place of (r, c).
RECURSIVE MarkFrom_push_start(_, _, _, _, _, _)
MarkFrom_push_start(self, row, col, size, direction, i) ==
    IF i >= size THEN self
    ELSE LET rc == IF direction THEN <<row, col + i>> ELSE <<row + i, col>>
             marked == [grid  |-> [self.grid EXCEPT ![rc[1]][rc[2]] = "Ship"],
                        ships |-> Append(self.ships, <<row, col>>)]
         IN  MarkFrom_push_start(marked, row, col, size, direction, i + 1)

\* The for loop of place_ship: marks the cell Ship and pushes its coordinate.
RECURSIVE MarkFrom(_, _, _, _, _, _)
MarkFrom(self, row, col, size, direction, i) ==
    IF i >= size THEN self
    ELSE LET rc == CellAt(row, col, direction, i)
             marked == [grid  |-> [self.grid EXCEPT ![rc[1]][rc[2]] = "Ship"],
                        ships |-> Append(self.ships, rc)]
         IN  MarkFrom(marked, row, col, size, direction, i + 1)

\* One iteration of the loop of Board::place_ship with the generator
\* returning (row, col, direction): the board after it, and whether the loop
\* was left (break).
place_ship_iter(self, size, row, col, direction) ==
    IF can_place_ship(self, row, col, size, direction)
    THEN [self |-> MarkFrom(self, row, col, size, direction, 0), placed |-> TRUE]
    ELSE [self |-> self, placed |-> FALSE]

\* Variant of fire with an arm "CellState::Hit => CellState::Hit": a second
\* shot at a Hit cell is reported as a hit again.
fire_rehit(self, row, col) ==
    CASE self.grid[row][col] = "Empty" ->
            [self |-> [self EXCEPT !.grid[row][col] = "Miss"], ret |-> "Miss"]
      [] self.grid[row][col] = "Ship" ->
            [self |-> [self EXCEPT !.grid[row][col] = "Hit"], ret |-> "Hit"]
      [] self.grid[row][col] = "Hit" ->
            [self |-> self, ret |-> "Hit"]
      [] OTHER ->
            [self |-> self, ret |-> "Miss"]

\* Variant of fire whose last arm also stores Miss in the cell.
fire_remiss(self, row, col) ==
    CASE self.grid[row][col] = "Empty" ->
            [self |-> [self EXCEPT !.grid[row][col] = "Miss"], ret |-> "Miss"]
      [] self.grid[row][col] = "Ship" ->
            [self |-> [self EXCEPT !.grid[row][col] = "Hit"], ret |-> "Hit"]
      [] OTHER ->
            [self |-> [self EXCEPT !.grid[row][col] = "Miss"], ret |-> "Miss"]

\* Variant of fire whose arm of Ship returns Hit without storing it: the
\* cell stays Ship.
fire_keep_ship(self, row, col) ==
    CASE self.grid[row][col] = "Empty" ->
            [self |-> [self EXCEPT !.grid[row][col] = "Miss"], ret |-> "Miss"]
      [] self.grid[row][col] = "Ship" ->
            [self |-> self, ret |-> "Hit"]
      [] OTHER ->
            [self |-> self, ret |-> "Miss"]

\* Variant of fire that also removes the coordinate it hit from the
\* ship-coordinate collection.
fire_remove_hit(self, row, col) ==
    CASE self.grid[row][col] = "Empty" ->
            [self |-> [self EXCEPT !.grid[row][col] = "Miss"], ret |-> "Miss"]
      [] self.grid[row][col] = "Ship" ->
            [self |-> [grid  |-> [self.grid EXCEPT ![row][col] = "Hit"],
                       ships |-> SelectSeq(self.ships, LAMBDA rc : rc # <<row, col>>)],
             ret |-> "Hit"]
      [] OTHER ->
            [self |-> self, ret |-> "Miss"]

\* Board::fire: the board after the call and the returned CellState.  The
\* index self.grid[row][col] of line 80 panics outside the grid.
fire(self, row, col) ==
    CASE row >= BOARD_SIZE \/ col >= BOARD_SIZE ->
            [self |-> self, ret |-> "panic"]
      [] self.grid[row][col] = "Empty" ->
            [self |-> [self EXCEPT !.grid[row][col] = "Miss"], ret |-> "Miss"]
      [] self.grid[row][col] = "Ship" ->
            [self |-> [self EXCEPT !.grid[row][col] = "Hit"], ret |-> "Hit"]
      [] OTHER ->
            [self |-> self, ret |-> "Miss"]

\* Variant of is_game_over that leaves out the last ship coordinate.
is_game_over_skip_last(self) ==
    \A i \in 1 .. (Len(self.ships) - 1) :
        self.grid[self.ships[i][1]][self.ships[i][2]] = "Hit"

\* Variant of is_game_over that looks at the first ship coordinate only.
is_game_over_first(self) ==
    \A i \in 1 .. Len(self.ships) :
        i = 1 => self.grid[self.ships[i][1]][self.ships[i][2]] = "Hit"

\* Variant of is_game_over with any() in place of all().
is_game_over_any(self) ==
    \E i \in 1 .. Len(self.ships) :
        self.grid[self.ships[i][1]][self.ships[i][2]] = "Hit"

\* Board::is_game_over
is_game_over(self) ==
    \A i \in 1 .. Len(self.ships) :
        self.grid[self.ships[i][1]][self.ships[i][2]] = "Hit"

----------------------------------------------------------------------------
(* fn main: setup *)

\* The size main passes to place_ship at each source line of the setup.
FleetSizeAt(line) ==
    CASE line \in {137, 143} -> 5
      [] line \in {138, 144} -> 4
      [] line \in {139, 140, 145, 146} -> 3
      [] line \in {141, 147} -> 2

PlayerSetupLines   == 137 .. 141
OpponentSetupLines == 143 .. 147

\* The statement after a setup line.
AfterSetupLine(line) ==
    CASE line = 141 -> 143
      [] line = 147 -> 160
      [] OTHER -> line + 1

\* Outcomes of rng.gen_range(0..BOARD_SIZE) twice and rng.gen::<bool>().
Draw(rows, cols) ==
    [row : rows, col : cols, direction : BOOLEAN]

\* The outcomes SpecFleet follows: rows in the last four rows, columns in
\* the last ColSpan columns.
FleetDraws ==
    Draw((BOARD_SIZE - 4) .. (BOARD_SIZE - 1), (BOARD_SIZE - ColSpan) .. (BOARD_SIZE - 1))

\* The outcomes Spec follows during setup: a start for every ship of the
\* fleet in the top right quarter of the grid, the first one in both
\* directions.
MainDraws ==
    { [row |-> 0, col |-> 5, direction |-> TRUE],
      [row |-> 0, col |-> 5, direction |-> FALSE],
      [row |-> 1, col |-> 6, direction |-> TRUE],
      [row |-> 2, col |-> 7, direction |-> TRUE],
      [row |-> 3, col |-> 7, direction |-> TRUE],
      [row |-> 4, col |-> 8, direction |-> TRUE] }

InitMain ==
    /\ player_board = new
    /\ opponent_board = new
    /\ pc = 137
    /\ player_move = NoMove
    /\ opponent_move = NoMove
    /\ result = "none"
    /\ msg = ""
    /\ shooter = "none"
    /\ input = <<>>
    /\ shots = [player |-> 0, opponent |-> 0]

InitBoard ==
    /\ board = new
    /\ call = [op |-> "new", row |-> 0, col |-> 0, size |-> 0, direction |-> FALSE,
               ok |-> TRUE, ret |-> "none"]
    /\ fired = {}
    /\ screen = NoScreen

InitInput ==
    /\ stdin = <<>>

Init == InitMain /\ InitBoard /\ InitInput

\* main lines 137-141: one iteration of the loop of player_board.place_ship.
PlacePlayerShip(draws) ==
    /\ pc \in PlayerSetupLines
    /\ \E d \in draws :
         LET it == place_ship_iter(player_board, FleetSizeAt(pc), d.row, d.col, d.direction)
         IN  /\ player_board' = it.self
             /\ pc' = IF it.placed THEN AfterSetupLine(pc) ELSE pc
    /\ UNCHANGED <<opponent_board, player_move, opponent_move, result, msg, shooter, input,
                   shots>>
    /\ UNCHANGED <<boardVars, stdin>>

\* main lines 143-147: one iteration of the loop of opponent_board.place_ship.
PlaceOpponentShip(draws) ==
    /\ pc \in OpponentSetupLines
    /\ \E d \in draws :
         LET it == place_ship_iter(opponent_board, FleetSizeAt(pc), d.row, d.col, d.direction)
         IN  /\ opponent_board' = it.self
             /\ pc' = IF it.placed THEN AfterSetupLine(pc) ELSE pc
    /\ UNCHANGED <<player_board, player_move, opponent_move, result, msg, shooter, input,
                   shots>>
    /\ UNCHANGED <<boardVars, stdin>>

----------------------------------------------------------------------------
(* fn get_player_input *)

\* A line is the sequence of its characters, the line terminator included.
WhiteSpace == {" ", "\t", "\n", "\r"}

Digits == <<"0", "1", "2", "3", "4", "5", "6", "7", "8", "9">>

IsDigit(ch) == \E d \in 1 .. 10 : Digits[d] = ch

DigitValue(ch) == (CHOOSE d \in 1 .. 10 : Digits[d] = ch) - 1

\* str::trim_start and str::trim_end
RECURSIVE trim_start(_)
trim_start(s) ==
    IF s # <<>> /\ Head(s) \in WhiteSpace THEN trim_start(Tail(s)) ELSE s

RECURSIVE trim_end(_)
trim_end(s) ==
    IF s # <<>> /\ s[Len(s)] \in WhiteSpace
    THEN trim_end(SubSeq(s, 1, Len(s) - 1))
    ELSE s

\* str::trim (line 217 and line 219)
trim(s) == trim_end(trim_start(s))

\* str::split(',') (line 218): the fields between the commas, field being
\* the characters read since the last comma.
RECURSIVE split(_, _)
split(s, field) ==
    IF s = <<>> THEN <<field>>
    ELSE IF Head(s) = "," THEN <<field>> \o split(Tail(s), <<>>)
    ELSE split(Tail(s), Append(field, Head(s)))

None == [some |-> FALSE, val |-> 0]
Some(v) == [some |-> TRUE, val |-> v]

\* The digit loop of str::parse::<usize>: None at the first character that
\* is not a decimal digit.
RECURSIVE parse_digits(_, _)
parse_digits(s, acc) ==
    IF s = <<>> THEN Some(acc)
    ELSE IF ~IsDigit(Head(s)) THEN None
    ELSE parse_digits(Tail(s), acc * 10 + DigitValue(Head(s)))

\* Variant of parse with unwrap_or(0) semantics: a field that is no number
\* counts as 0.
parse_or_zero(s) ==
    IF s = <<>> THEN Some(0)
    ELSE IF Len(s) = 1 /\ Head(s) \in {"+", "-"} THEN Some(0)
    ELSE LET v == parse_digits(IF Head(s) = "+" THEN Tail(s) ELSE s, 0)
         IN  IF v.some THEN v ELSE Some(0)

\* s.parse::<usize>().ok() (line 219): an empty string and a lone sign are
\* errors, one leading '+' is accepted, '-' is not a digit of an unsigned
\* type.
parse(s) ==
    IF s = <<>> THEN None
    ELSE IF Len(s) = 1 /\ Head(s) \in {"+", "-"} THEN None
    ELSE IF Head(s) = "+" THEN parse_digits(Tail(s), 0)
    ELSE parse_digits(s, 0)

\* collect::<Option<Vec<usize>>>() (line 220): None as soon as one field
\* is None, otherwise the vector of the values.
RECURSIVE collect(_, _)
collect(fields, acc) ==
    IF fields = <<>> THEN Some(acc)
    ELSE LET v == parse(trim(Head(fields)))
         IN  IF ~v.some THEN [some |-> FALSE, val |-> <<>>]
             ELSE collect(Tail(fields), Append(acc, v.val))

\* lines 216-220
coordinates(line) == collect(split(trim(line), <<>>), <<>>)

\* Variant of get_player_input_iter with "<=" in place of "<" in the range
\* test of the row.
get_player_input_iter_le(line) ==
    LET coords == collect(split(trim(line), <<>>), <<>>)
    IN  IF coords.some
        THEN IF Len(coords.val) = 2 /\ coords.val[1] <= BOARD_SIZE /\ coords.val[2] < BOARD_SIZE
             THEN [returns |-> TRUE, move |-> <<coords.val[1], coords.val[2]>>]
             ELSE [returns |-> FALSE, move |-> NoMove]
        ELSE [returns |-> FALSE, move |-> NoMove]

\* One iteration of the loop of get_player_input on the line read: whether
\* the function returns, and the pair it returns.
get_player_input_iter(line) ==
    LET coords == coordinates(line)
    IN  IF coords.some
        THEN IF Len(coords.val) = 2 /\ coords.val[1] < BOARD_SIZE /\ coords.val[2] < BOARD_SIZE
             THEN [returns |-> TRUE, move |-> <<coords.val[1], coords.val[2]>>]
             ELSE [returns |-> FALSE, move |-> NoMove]
        ELSE [returns |-> FALSE, move |-> NoMove]

\* fn print_error_message
MsgInvalid == "Invalid input. Please enter row and column numbers separated by a comma."

----------------------------------------------------------------------------
(* fn main: the game loop *)

MsgYouMissed == "You missed!"
MsgYouHit    == "You hit a ship!"
MsgVictory   == "Congratulations! You sank all of your opponent's ships!"
MsgOppMissed == "Opponent missed!"
MsgOppHit    == "Opponent hit one of your ships!"
MsgDefeat    == "Oh no! All of your ships have been sunk!"

\* The cells shots are followed on: the top right quarter of the grid in
\* row-major order.
ScanOrder ==
    [k \in 1 .. 25 |-> <<(k - 1) \div 5, 5 + ((k - 1) % 5)>>]

\* The position in ScanOrder of the first cell of a board that no shot has
\* resolved yet (Len + 1 when there is none).
FirstUnresolved(b) ==
    LET open == {k \in DOMAIN ScanOrder :
                    b.grid[ScanOrder[k][1]][ScanOrder[k][2]] \in {"Empty", "Ship"}}
    IN  IF open = {} THEN Len(ScanOrder) + 1
        ELSE CHOOSE k \in open : \A j \in open : k <= j

\* The targets followed on a board: the first unresolved cell of ScanOrder,
\* and the cell before it (which a shot has resolved already).
Targets(b) ==
    LET f == FirstUnresolved(b)
    IN  {ScanOrder[k] : k \in {f - 1, f} \cap DOMAIN ScanOrder}

\* The line a player types for a target.
MoveLine(rc) == <<Digits[rc[1] + 1], ",", " ", Digits[rc[2] + 1], "\n">>

\* Lines get_player_input rejects: a value out of range, fields that are no
\* numbers, a single field.
BadLines ==
    { <<"1", "0", ",", "0", "\n">>,
      <<"a", ",", "b", "\n">>,
      <<"3", "\n">> }

\* The lines the player types at the prompt for a shot at the opponent's board.
PlayerLines(b) == {MoveLine(rc) : rc \in Targets(b)} \cup BadLines

\* Variant of generate_opponent_move with the inclusive range 0..=BOARD_SIZE.
generate_opponent_move_inclusive == (0 .. BOARD_SIZE) \X (0 .. BOARD_SIZE)

\* fn generate_opponent_move: the pairs the two calls of
\* rng.gen_range(0..BOARD_SIZE) return.
generate_opponent_move == Index \X Index

\* lines 155-158: every round starts with display of both boards, which
\* writes to standard output and changes nothing the steps below depend on.

\* Variant of PlayerShot that treats a pair naming a cell that is Hit or Miss
\* like a rejected line: the error message, and the prompt again.
PlayerShot_reject_resolved(lines) ==
    /\ pc = 160
    /\ \E line \in lines :
         LET it == get_player_input_iter(line)
         IN  /\ input' = line
             /\ IF it.returns /\ opponent_board.grid[it.move[1]][it.move[2]] \in {"Empty", "Ship"}
                THEN LET f == fire(opponent_board, it.move[1], it.move[2])
                     IN  /\ player_move' = it.move
                         /\ opponent_board' = f.self
                         /\ result' = f.ret
                         /\ shooter' = "player"
                         /\ msg' = CASE f.ret = "Miss" -> MsgYouMissed
                                     [] f.ret = "Hit" -> MsgYouHit
                                     [] OTHER -> msg
                         /\ pc' = 168
                ELSE /\ msg' = MsgInvalid
                     /\ UNCHANGED <<player_move, opponent_board, result, shooter, pc>>
    /\ UNCHANGED <<player_board, opponent_move>>
    /\ UNCHANGED <<boardVars, stdin>>

\* lines 160-166: get_player_input reads one of the lines; a rejected line
\* prints the error message and prompts again, an accepted one is fired on
\* the opponent's board and the result is reported.  An index outside the
\* grid panics in fire (line 80) and ends the process there.
PlayerShot(lines) ==
    /\ pc = 160
    /\ \E line \in lines :
         LET it == get_player_input_iter(line)
         IN  /\ input' = line
             /\ IF it.returns
                THEN LET f == fire(opponent_board, it.move[1], it.move[2])
                     IN  /\ player_move' = it.move
                         /\ opponent_board' = f.self
                         /\ result' = f.ret
                         /\ shooter' = "player"
                         /\ msg' = CASE f.ret = "Miss" -> MsgYouMissed
                                     [] f.ret = "Hit" -> MsgYouHit
                                     [] OTHER -> msg
                         /\ pc' = IF f.ret = "panic" THEN 80 ELSE 168
                ELSE /\ msg' = MsgInvalid
                     /\ UNCHANGED <<player_move, opponent_board, result, shooter, pc>>
    /\ UNCHANGED <<player_board, opponent_move>>
    /\ UNCHANGED <<boardVars, stdin>>

PlayerTurn ==
    /\ PlayerShot(PlayerLines(opponent_board))
    /\ UNCHANGED shots

\* lines 167-181: after the acknowledgment, the check of the opponent's
\* board: victory ends the loop.
Victory ==
    /\ pc = 168
    /\ is_game_over(opponent_board)
    /\ msg' = MsgVictory
    /\ pc' = 205
    /\ UNCHANGED <<player_board, opponent_board, player_move, opponent_move, result,
                   shooter, input>>
    /\ UNCHANGED <<boardVars, stdin>>

\* Variant of OpponentShot for an opponent that remembers its shots: a move
\* at a cell that is Hit or Miss is not made.
OpponentShot_unresolved_only(move) ==
    /\ pc = 168
    /\ ~is_game_over(opponent_board)
    /\ move \in generate_opponent_move
    /\ player_board.grid[move[1]][move[2]] \in {"Empty", "Ship"}
    /\ LET f == fire(player_board, move[1], move[2])
       IN  /\ opponent_move' = move
           /\ player_board' = f.self
           /\ result' = f.ret
           /\ shooter' = "opponent"
           /\ msg' = CASE f.ret = "Miss" -> MsgOppMissed
                       [] f.ret = "Hit" -> MsgOppHit
                       [] OTHER -> msg
           /\ pc' = 192
    /\ UNCHANGED <<opponent_board, player_move, input>>
    /\ UNCHANGED <<boardVars, stdin>>

\* lines 167-190 when the opponent's board is not game-over and
\* generate_opponent_move returns move: it is fired on the player's board
\* and the result is reported.
OpponentShot(move) ==
    /\ pc = 168
    /\ ~is_game_over(opponent_board)
    /\ move \in generate_opponent_move
    /\ LET f == fire(player_board, move[1], move[2])
       IN  /\ opponent_move' = move
           /\ player_board' = f.self
           /\ result' = f.ret
           /\ shooter' = "opponent"
           /\ msg' = CASE f.ret = "Miss" -> MsgOppMissed
                       [] f.ret = "Hit" -> MsgOppHit
                       [] OTHER -> msg
           /\ pc' = IF f.ret = "panic" THEN 80 ELSE 192
    /\ UNCHANGED <<opponent_board, player_move, input>>
    /\ UNCHANGED <<boardVars, stdin>>

\* Variant of OpponentTurn in which the opponent's move is fired on
\* opponent_board.
OpponentTurn_wrong_board ==
    /\ pc = 168
    /\ IF is_game_over(opponent_board)
       THEN /\ msg' = MsgVictory
            /\ pc' = 205
            /\ UNCHANGED <<opponent_board, opponent_move, result, shooter>>
       ELSE \E move \in Targets(opponent_board) :
              LET f == fire(opponent_board, move[1], move[2])
              IN  /\ opponent_move' = move
                  /\ opponent_board' = f.self
                  /\ result' = f.ret
                  /\ shooter' = "opponent"
                  /\ msg' = CASE f.ret = "Miss" -> MsgOppMissed
                              [] f.ret = "Hit" -> MsgOppHit
                              [] OTHER -> msg
                  /\ pc' = 192
    /\ UNCHANGED <<player_board, player_move, input, shots>>
    /\ UNCHANGED <<boardVars, stdin>>

\* lines 167-190, the opponent's move being one of the targets followed on
\* the player's board.
OpponentTurn ==
    /\ \/ Victory
       \/ \E move \in Targets(player_board) : OpponentShot(move)
    /\ UNCHANGED shots

\* lines 191-204: after the acknowledgment, the check of the player's board;
\* defeat ends the loop, otherwise the next round starts.
RoundEnd ==
    /\ pc = 192
    /\ IF is_game_over(player_board)
       THEN /\ msg' = MsgDefeat
            /\ pc' = 205
       ELSE /\ pc' = 160
            /\ UNCHANGED msg
    /\ UNCHANGED <<player_board, opponent_board, player_move, opponent_move, result,
                   shooter, input>>
    /\ UNCHANGED <<boardVars, stdin>>

EndOfRound ==
    /\ RoundEnd
    /\ UNCHANGED shots

Next ==
    \/ PlacePlayerShip(MainDraws)
    \/ PlaceOpponentShip(MainDraws)
    \/ PlayerTurn
    \/ OpponentTurn
    \/ EndOfRound

Spec == Init /\ [][Next]_vars

----------------------------------------------------------------------------
(* SpecLive: main with a fair generator and a player who answers *)

\* The outcomes SpecLive follows during setup: the horizontal ones of
\* MainDraws.
LiveDraws == {d \in MainDraws : d.direction}

\* The lines the player types in SpecLive: the followed targets and one
\* rejected line.
LiveLines(b) == {MoveLine(rc) : rc \in Targets(b)} \cup {<<"3", "\n">>}

LivePlayerTurn ==
    /\ PlayerShot(LiveLines(opponent_board))
    /\ UNCHANGED shots

\* The steps of LivePlayerTurn on an accepted line: the line of a followed
\* target is read, get_player_input returns the target and it is fired on
\* the opponent's board.
PlayerAccepted ==
    /\ pc = 160
    /\ \E rc \in Targets(opponent_board) :
         LET f == fire(opponent_board, rc[1], rc[2])
         IN  /\ input' = MoveLine(rc)
             /\ player_move' = rc
             /\ opponent_board' = f.self
             /\ result' = f.ret
             /\ shooter' = "player"
             /\ msg' = CASE f.ret = "Miss" -> MsgYouMissed
                         [] f.ret = "Hit" -> MsgYouHit
                         [] OTHER -> msg
             /\ pc' = 168
    /\ UNCHANGED <<player_board, opponent_move, shots>>
    /\ UNCHANGED <<boardVars, stdin>>

\* The opponent's shot at a followed target that no shot has resolved yet.
OpponentFreshShot ==
    /\ \E move \in Targets(player_board) :
         /\ player_board.grid[move[1]][move[2]] \in {"Empty", "Ship"}
         /\ OpponentShot(move)
    /\ UNCHANGED shots

LiveNext ==
    \/ PlacePlayerShip(LiveDraws)
    \/ PlaceOpponentShip(LiveDraws)
    \/ LivePlayerTurn
    \/ OpponentTurn
    \/ EndOfRound

\* The steps that take main to another statement: a ship placed, a line
\* accepted and fired, the report acknowledged and the checks made.
Progress ==
    \/ PlacePlayerShip(LiveDraws)
    \/ PlaceOpponentShip(LiveDraws)
    \/ PlayerAccepted
    \/ OpponentTurn
    \/ EndOfRound

\* The scheduling the game relies on.  The generator is fair: a draw that
\* fits is eventually made during setup, and a target that is possible at
\* the opponent's turns, which come round by round, is eventually chosen
\* (strong fairness of the shot at the unresolved target).  The player
\* eventually types a line that is accepted at each prompt and acknowledges
\* each report, after which main goes on; at every statement of main exactly
\* one of the steps of Progress is possible.
SpecLive ==
    /\ Init
    /\ [][LiveNext]_vars
    /\ WF_vars(Progress)
    /\ SF_vars(OpponentFreshShot)

\* SpecLive without the fairness of the opponent's target selection: the
\* run in which both sides fire at the same resolved cell round after round
\* satisfies it.
SpecUnfair ==
    /\ Init
    /\ [][LiveNext]_vars
    /\ WF_vars(Progress)

----------------------------------------------------------------------------
(* SpecCount: games in which the player never fires twice at a cell, with *)
(* the calls of fire counted                                               *)

\* The cells of the grid in row-major order.
RowMajor == [k \in 1 .. (BOARD_SIZE * BOARD_SIZE) |->
                <<(k - 1) \div BOARD_SIZE, (k - 1) % BOARD_SIZE>>]

\* The first cell of a sequence of cells that is in state st on board b
\* (none: the empty set).
FirstIn(b, cells, st) ==
    LET open == {k \in 1 .. Len(cells) : b.grid[cells[k][1]][cells[k][2]] = st}
    IN  IF open = {} THEN {}
        ELSE {cells[CHOOSE k \in open : \A j \in open : k <= j]}

\* The cells the player's shots are followed on: never a cell that is Hit or
\* Miss.  The first shot is at the first ship coordinate or at the first
\* Empty cell of the opponent's board; a player who began with the ships goes
\* on with the ship coordinates in their order, a player who began with the
\* water goes on with the Empty cells in row-major order and then with the
\* ship coordinates.
FreshTargets(b) ==
    LET ship  == FirstIn(b, b.ships, "Ship")
        water == FirstIn(b, RowMajor, "Empty")
    IN  IF \E k \in 1 .. Len(RowMajor) : b.grid[RowMajor[k][1]][RowMajor[k][2]] = "Miss"
        THEN IF water # {} THEN water ELSE ship
        ELSE IF \E k \in 1 .. Len(b.ships) : b.grid[b.ships[k][1]][b.ships[k][2]] = "Hit"
             THEN ship
             ELSE ship \cup water

\* The outcomes of generate_opponent_move that are followed: the first ship
\* coordinate of the player's board that is not hit yet, and the opponent's
\* last move again.
CountTargets(b) ==
    FirstIn(b, b.ships, "Ship") \cup (IF opponent_move = NoMove THEN {} ELSE {opponent_move})

CountPlayerTurn ==
    /\ PlayerShot({MoveLine(rc) : rc \in FreshTargets(opponent_board)})
    /\ shots' = IF pc' = 160 THEN shots ELSE [shots EXCEPT !.player = @ + 1]

CountOpponentTurn ==
    \/ Victory /\ UNCHANGED shots
    \/ /\ \E move \in CountTargets(player_board) : OpponentShot(move)
       /\ shots' = [shots EXCEPT !.opponent = @ + 1]

CountEndOfRound ==
    /\ RoundEnd
    /\ UNCHANGED shots

CountNext ==
    \/ PlacePlayerShip(MainDraws)
    \/ PlaceOpponentShip(MainDraws)
    \/ CountPlayerTurn
    \/ CountOpponentTurn
    \/ CountEndOfRound

SpecCount == Init /\ [][CountNext]_vars

----------------------------------------------------------------------------
(* SpecFleet: the setup of one board *)

FleetNext == PlacePlayerShip(FleetDraws)

SpecFleet == Init /\ [][FleetNext]_vars

\* The loop of place_ship draws again after a rejected draw, which leaves
\* the state as it was.  Every outcome of the generator has a positive
\* probability at every iteration, so a run in which an outcome that fits
\* exists at every iteration and none is ever drawn has probability zero:
\* the step that places the ship is taken when it stays possible.
SpecFleetLive == Init /\ [][FleetNext]_vars /\ WF_vars(FleetNext)

----------------------------------------------------------------------------
(* impl Board: display *)

\* What one print! writes: its characters and the colour they are written in.
Plain(text)   == [text |-> text, colour |-> "none"]
Colour(text, colour) == [text |-> text, colour |-> colour]

\* format!("{:2}", i): the decimal digits of i, padded on the left to two
\* characters.
Width2(i) ==
    IF i < 10 THEN <<" ", Digits[i + 1]>>
    ELSE <<Digits[(i \div 10) + 1], Digits[(i % 10) + 1]>>

\* Variant of DisplayCell without the test of hide_ships in the arm of Ship.
DisplayCell_show_ship(cell, hide_ships) ==
    CASE cell = "Empty" -> IF hide_ships THEN Plain(<<" ", " ", " ">>)
                           ELSE Plain(<<" ", "□", " ">>)
      [] cell = "Ship"  -> Plain(<<" ", "■", " ">>)
      [] cell = "Hit"   -> Colour(<<" ", "●", " ">>, "red")
      [] cell = "Miss"  -> Colour(<<" ", "·", " ">>, "cyan")

\* lines 103-120: what display prints for one cell.
DisplayCell(cell, hide_ships) ==
    CASE cell = "Empty" -> IF hide_ships THEN Plain(<<" ", " ", " ">>)
                           ELSE Plain(<<" ", "□", " ">>)
      [] cell = "Ship"  -> IF hide_ships THEN Plain(<<" ", " ", " ">>)
                           ELSE Plain(<<" ", "■", " ">>)
      [] cell = "Hit"   -> Colour(<<" ", "●", " ">>, "red")
      [] cell = "Miss"  -> Colour(<<" ", "·", " ">>, "cyan")

\* Board::display: the lines written, each the sequence of what its print!
\* calls wrote: the header with the column numbers, then one line per row of
\* the grid.
display(self, hide_ships) ==
    LET header == <<Plain(<<" ", " ", " ">>)>> \o
                  [i \in 1 .. BOARD_SIZE |-> Plain(<<" ", Digits[i], " ">>)]
        line(r) == <<Plain(Width2(r) \o <<" ">>)>> \o
                   [c \in 1 .. BOARD_SIZE |-> DisplayCell(self.grid[r][c - 1], hide_ships)]
    IN  <<header>> \o [r \in 1 .. BOARD_SIZE |-> line(r - 1)]

----------------------------------------------------------------------------
(* SpecBoard: the methods of Board called in any order *)

\* The rows and columns the calls are made with: the last two of the grid.
ApiIndex == {BOARD_SIZE - 2, BOARD_SIZE - 1}

ApiSizes == 1 .. MaxSize

Call(op, row, col, size, direction, ok, ret) ==
    [op |-> op, row |-> row, col |-> col, size |-> size, direction |-> direction,
     ok |-> ok, ret |-> ret]

\* One iteration of the loop of board.place_ship(size); ok records whether
\* the loop was left.
CallPlaceShip ==
    /\ Len(board.ships) < MaxShipCells
    /\ \E size \in ApiSizes, d \in Draw(ApiIndex, ApiIndex) :
         LET it == place_ship_iter(board, size, d.row, d.col, d.direction)
         IN  /\ board' = it.self
             /\ call' = Call("place_ship", d.row, d.col, size, d.direction, it.placed, "none")
    /\ screen' = NoScreen
    /\ UNCHANGED fired
    /\ UNCHANGED <<mainVars, stdin>>

\* board.can_place_ship(row, col, size, direction)
CallCanPlaceShip ==
    /\ \E row \in ApiIndex, col \in ApiIndex, size \in ApiSizes, direction \in BOOLEAN :
         call' = Call("can_place_ship", row, col, size, direction,
                      can_place_ship(board, row, col, size, direction), "none")
    /\ screen' = NoScreen
    /\ UNCHANGED <<board, fired>>
    /\ UNCHANGED <<mainVars, stdin>>

\* board.fire(row, col)
CallFire ==
    /\ \E row \in ApiIndex, col \in ApiIndex :
         LET f == fire(board, row, col)
         IN  /\ board' = f.self
             /\ call' = Call("fire", row, col, 0, FALSE, TRUE, f.ret)
             /\ fired' = fired \cup {<<row, col>>}
    /\ screen' = NoScreen
    /\ UNCHANGED <<mainVars, stdin>>

\* board.is_game_over()
CallIsGameOver ==
    /\ call' = Call("is_game_over", 0, 0, 0, FALSE, is_game_over(board), "none")
    /\ screen' = NoScreen
    /\ UNCHANGED <<board, fired>>
    /\ UNCHANGED <<mainVars, stdin>>

\* board.display(hide_ships)
CallDisplay ==
    /\ \E hide_ships \in BOOLEAN :
         /\ call' = Call("display", 0, 0, 0, FALSE, TRUE, "none")
         /\ screen' = [hide_ships |-> hide_ships, lines |-> display(board, hide_ships)]
    /\ UNCHANGED <<board, fired>>
    /\ UNCHANGED <<mainVars, stdin>>

BoardNext ==
    \/ CallPlaceShip
    \/ CallCanPlaceShip
    \/ CallFire
    \/ CallIsGameOver
    \/ CallDisplay

SpecBoard == Init /\ [][BoardNext]_vars

----------------------------------------------------------------------------
(* SpecInput: get_player_input on the lines of standard input *)

InputAlphabet == {"0", "1", "a", ",", " ", "+", "-"}

\* The strings over InputAlphabet of length n.
RECURSIVE Strings(_)
Strings(n) ==
    IF n = 0 THEN {<<>>}
    ELSE {Append(s, ch) : s \in Strings(n - 1), ch \in InputAlphabet}

\* The example lines of the specification's parser property.
ExampleLines ==
    { <<"3", ",", "4", "\n">>,
      <<" ", "3", " ", ",", " ", "4", " ", "\n">>,
      <<"3", ",", " ", "4", "\n">>,
      <<"3", ",", "4", ",", "5", "\n">> } \cup BadLines

InputLines ==
    UNION {{s \o <<"\n">> : s \in Strings(n)} : n \in 0 .. MaxLineLen} \cup ExampleLines

\* Standard input holds one line, or two of the example lines.
StdinContents ==
    {<<l>> : l \in InputLines} \cup {<<k, l>> : k \in ExampleLines, l \in ExampleLines}

InitStdin ==
    /\ InitMain
    /\ InitBoard
    /\ stdin \in StdinContents

\* One iteration of the loop of get_player_input: read_line takes the next
\* line of standard input (the empty string at end of input).
ReadInput ==
    /\ player_move = NoMove
    /\ input' = IF stdin = <<>> THEN <<>> ELSE Head(stdin)
    /\ stdin' = IF stdin = <<>> THEN <<>> ELSE Tail(stdin)
    /\ LET it == get_player_input_iter(input')
       IN  IF it.returns
           THEN /\ player_move' = it.move
                /\ UNCHANGED msg
           ELSE /\ msg' = MsgInvalid
                /\ UNCHANGED player_move
    /\ UNCHANGED <<player_board, opponent_board, pc, opponent_move, result, shooter, shots>>
    /\ UNCHANGED boardVars

InputNext == ReadInput

SpecInput == InitStdin /\ [][InputNext]_vars

----------------------------------------------------------------------------
(* Properties *)

Cells == Index \X Index

\* The coordinates of the ship-coordinate collection of a board.
ShipSet(b) == {b.ships[i] : i \in 1 .. Len(b.ships)}

\* The sizes of the fleet in the order main places them.
FleetSizes == [k \in 1 .. 5 |-> FleetSizeAt(136 + k)]

RECURSIVE SumTo(_, _)
SumTo(sizes, k) == IF k = 0 THEN 0 ELSE sizes[k] + SumTo(sizes, k - 1)

\* The coordinates the k-th place_ship call of the setup pushed.
ShipOf(b, k) ==
    SubSeq(b.ships, SumTo(FleetSizes, k - 1) + 1, SumTo(FleetSizes, k))

\* seg is a run of consecutive cells of one row or of one column, inside the grid.
IsRun(seg) ==
    /\ \A i \in 1 .. Len(seg) : seg[i] \in Cells
    /\ \/ \A i \in 1 .. Len(seg) : seg[i] = <<seg[1][1], seg[1][2] + (i - 1)>>
       \/ \A i \in 1 .. Len(seg) : seg[i] = <<seg[1][1] + (i - 1), seg[1][2]>>

\* C1: when the five place_ship calls of the setup of a board have returned,
\* exactly 17 cells are Ship, the ship coordinates are 17 pairwise distinct
\* coordinates, and the coordinates of each call are a horizontal or vertical
\* run inside the grid that shares no cell with the ships placed before it.
C1_FleetPlaced ==
    pc = 143 =>
        /\ Cardinality({rc \in Cells : player_board.grid[rc[1]][rc[2]] = "Ship"}) = 17
        /\ Len(player_board.ships) = 17
        /\ Cardinality(ShipSet(player_board)) = 17
        /\ \A k \in 1 .. 5 :
             /\ Len(ShipOf(player_board, k)) = FleetSizes[k]
             /\ IsRun(ShipOf(player_board, k))
             /\ \A j \in 1 .. (k - 1) :
                  \A a \in 1 .. FleetSizes[k], e \in 1 .. FleetSizes[j] :
                      ShipOf(player_board, k)[a] # ShipOf(player_board, j)[e]

\* A finished setup with the 5-ship along the last row, a 3-ship vertical
\* and the 2-ship horizontal.
C1_Witness ==
    /\ pc = 143
    /\ ShipOf(player_board, 1) = <<<<9, 5>>, <<9, 6>>, <<9, 7>>, <<9, 8>>, <<9, 9>>>>
    /\ ShipOf(player_board, 3)[1][2] = ShipOf(player_board, 3)[3][2]
    /\ ShipOf(player_board, 5)[1][1] = ShipOf(player_board, 5)[2][1]

\* C9: on both boards, during setup and play, a coordinate is in the
\* ship-coordinate collection iff its cell is Ship or Hit.
C9_ShipsMatchGrid ==
    \A b \in {player_board, opponent_board} :
        ShipSet(b) = {rc \in Cells : b.grid[rc[1]][rc[2]] \in {"Ship", "Hit"}}

\* A state of play in which both boards hold Hit, Ship and Miss cells.
C9_Witness ==
    /\ pc = 160
    /\ \A b \in {player_board, opponent_board} :
         /\ \E rc \in ShipSet(b) : b.grid[rc[1]][rc[2]] = "Hit"
         /\ \E rc \in ShipSet(b) : b.grid[rc[1]][rc[2]] = "Ship"
         /\ \E rc \in Cells : b.grid[rc[1]][rc[2]] = "Miss"

\* The only changes of a cell: none, Empty to Miss, Ship to Hit.
Monotone(before, after) ==
    \/ after = before
    \/ before = "Empty" /\ after = "Miss"
    \/ before = "Ship" /\ after = "Hit"

\* C8: after setup every step changes every cell of either board only from
\* Empty to Miss or from Ship to Hit.
C8_CellsMonotone ==
    [][pc >= 160 =>
          \A rc \in Cells :
              /\ Monotone(player_board.grid[rc[1]][rc[2]], player_board'.grid[rc[1]][rc[2]])
              /\ Monotone(opponent_board.grid[rc[1]][rc[2]], opponent_board'.grid[rc[1]][rc[2]])]_vars

\* The player has shot a second time at a cell that is Hit, and the opponent
\* at a cell that is Miss.
C8_Witness ==
    /\ pc = 192
    /\ result = "Miss"
    /\ opponent_board.grid[player_move[1]][player_move[2]] = "Hit"
    /\ player_board.grid[opponent_move[1]][opponent_move[2]] = "Miss"
    /\ msg = MsgOppMissed

\* Every ship coordinate of the board is Hit.
Sunk(b) == \A rc \in ShipSet(b) : b.grid[rc[1]][rc[2]] = "Hit"

\* The cell of a board a move names has been resolved by a shot.
Resolved(b, move) ==
    /\ move \in Cells
    /\ b.grid[move[1]][move[2]] \in {"Hit", "Miss"}

\* C4: in each round the player's shot is fired on the opponent's board
\* first; then the opponent's board is checked, and if it is game-over the
\* loop ends with the victory message and without an opponent shot,
\* otherwise exactly one opponent shot is fired on the player's board; then
\* the player's board is checked and if it is game-over the loop ends with
\* the defeat message. The first shot is the player's and shots alternate.
C4_RoundOrder ==
    /\ [](/\ pc < 160 => shooter = "none"
          /\ pc = 160 => shooter \in {"none", "opponent"}
          /\ pc = 168 => shooter = "player"
          /\ pc = 192 => shooter = "opponent")
    /\ [][/\ pc < 160 => player_move' = NoMove /\ opponent_move' = NoMove
          /\ pc = 160 /\ pc' # 160 =>
                /\ pc' = 168
                /\ shooter' = "player"
                /\ Resolved(opponent_board', player_move')
                /\ player_board' = player_board
          /\ pc = 168 /\ Sunk(opponent_board) =>
                /\ pc' = 205
                /\ msg' = MsgVictory
                /\ shooter' = "player"
                /\ player_board' = player_board
                /\ opponent_board' = opponent_board
          /\ pc = 168 /\ ~Sunk(opponent_board) =>
                /\ pc' = 192
                /\ shooter' = "opponent"
                /\ Resolved(player_board', opponent_move')
                /\ opponent_board' = opponent_board
          /\ pc = 192 =>
                /\ player_board' = player_board
                /\ opponent_board' = opponent_board
                /\ shooter' = shooter
                /\ IF Sunk(player_board)
                   THEN pc' = 205 /\ msg' = MsgDefeat
                   ELSE pc' = 160
          /\ pc = 205 => FALSE]_vars

\* The loop has ended with the victory message right after a player's shot
\* that hit, in a game in which the opponent had hit too.
C4_Witness ==
    /\ pc = 205
    /\ msg = MsgVictory
    /\ shooter = "player"
    /\ result = "Hit"
    /\ \E rc \in Cells : player_board.grid[rc[1]][rc[2]] = "Hit"

\* C10: the loop ends only right after a game-over check that succeeded: in
\* the terminated state the victory message was printed iff the opponent's
\* board is game-over and the defeat message iff the player's board is; at
\* the start of a round neither board is game-over; and once a check has
\* found a board game-over no shot changes either board.
C10_EndsOnGameOver ==
    /\ [](/\ pc = 205 =>
                /\ msg \in {MsgVictory, MsgDefeat}
                /\ (msg = MsgVictory) <=> Sunk(opponent_board)
                /\ (msg = MsgDefeat) <=> Sunk(player_board)
          /\ pc = 160 => ~Sunk(player_board) /\ ~Sunk(opponent_board))
    /\ [][/\ pc' = 205 =>
                \/ pc = 168 /\ Sunk(opponent_board)
                \/ pc = 192 /\ Sunk(player_board)
          /\ \/ pc = 168 /\ Sunk(opponent_board)
             \/ pc = 192 /\ Sunk(player_board)
             \/ pc = 205
             => /\ player_board' = player_board
                /\ opponent_board' = opponent_board
                /\ pc' = 205]_vars

\* The loop has ended with the defeat message while the opponent's board
\* still holds a Ship cell.
C10_Witness ==
    /\ pc = 205
    /\ msg = MsgDefeat
    /\ Sunk(player_board)
    /\ \E rc \in Cells : opponent_board.grid[rc[1]][rc[2]] = "Ship"

\* The positions of the commas of a line.
Commas(line) == {i \in 1 .. Len(line) : line[i] = ","}

\* A field without its leading and trailing whitespace.
Stripped(f) ==
    LET ink == {i \in 1 .. Len(f) : f[i] \notin WhiteSpace}
    IN  IF ink = {} THEN <<>>
        ELSE SubSeq(f, CHOOSE i \in ink : \A j \in ink : i <= j,
                       CHOOSE i \in ink : \A j \in ink : i >= j)

\* t is a decimal numeral (one '+' may lead it) of a value below 10: all
\* digits but the last are zeros.
BelowTen(t) ==
    LET d == IF t # <<>> /\ Head(t) = "+" THEN Tail(t) ELSE t
    IN  /\ d # <<>>
        /\ \A i \in 1 .. Len(d) : IsDigit(d[i])
        /\ \A i \in 1 .. (Len(d) - 1) : d[i] = "0"

\* The value of such a numeral.
LastDigit(t) == DigitValue(t[Len(t)])

FirstField(line) == SubSeq(line, 1, (CHOOSE i \in Commas(line) : TRUE) - 1)
SecondField(line) == SubSeq(line, (CHOOSE i \in Commas(line) : TRUE) + 1, Len(line))

\* The line has exactly two comma-separated fields, each of which, without
\* its surrounding whitespace, is a numeral of a value below 10.
ValidLine(line) ==
    /\ Cardinality(Commas(line)) = 1
    /\ BelowTen(Stripped(FirstField(line)))
    /\ BelowTen(Stripped(SecondField(line)))

LineMove(line) ==
    <<LastDigit(Stripped(FirstField(line))), LastDigit(Stripped(SecondField(line)))>>

\* C6: a step of the prompt on a rejected line changes neither board, keeps
\* main at the prompt, fires no shot and does not end the game, only the
\* error message is printed; a step of the prompt on a valid line is the
\* player's shot at the pair the line names.
C6_RejectedInputNoChange ==
    [][pc = 160 =>
          IF ValidLine(input')
          THEN /\ pc' = 168
               /\ shooter' = "player"
               /\ player_move' = LineMove(input')
               /\ Resolved(opponent_board', player_move')
          ELSE /\ pc' = 160
               /\ msg' = MsgInvalid
               /\ player_board' = player_board
               /\ opponent_board' = opponent_board
               /\ player_move' = player_move
               /\ opponent_move' = opponent_move
               /\ result' = result
               /\ shooter' = shooter]_vars

\* In the middle of a game the prompt has rejected a line with a value out
\* of range.
C6_Witness ==
    /\ pc = 160
    /\ msg = MsgInvalid
    /\ input = <<"1", "0", ",", "0", "\n">>
    /\ shooter = "opponent"
    /\ \E rc \in Cells : opponent_board.grid[rc[1]][rc[2]] = "Hit"

\* C7: get_player_input returns on a line iff the line has exactly two
\* comma-separated fields that, trimmed, are numerals of values below 10, and
\* it returns the pair of the two values.
C7_InputAccepted ==
    /\ (player_move # NoMove) <=> ValidLine(input)
    /\ ValidLine(input) => player_move = LineMove(input)

\* The line " 3 , 4 " has been read and (3, 4) returned.
C7_Witness ==
    /\ input = <<" ", "3", " ", ",", " ", "4", " ", "\n">>
    /\ player_move = <<3, 4>>
    /\ stdin = <<>>

\* C2: fire(row, col) on an Empty cell makes it Miss and returns Miss, on a
\* Ship cell makes it Hit and returns Hit, and on a Hit or Miss cell returns
\* Miss and leaves the board as it was.
C2_FireContract ==
    [][call'.op = "fire" =>
          LET before == board.grid[call'.row][call'.col]
              after  == board'.grid[call'.row][call'.col]
          IN  /\ before = "Empty" => after = "Miss" /\ call'.ret = "Miss"
              /\ before = "Ship" => after = "Hit" /\ call'.ret = "Hit"
              /\ before \in {"Hit", "Miss"} => board' = board /\ call'.ret = "Miss"]_vars

\* A second shot at a cell that was Hit has returned Miss.
C2_Witness ==
    /\ call.op = "fire"
    /\ call.ret = "Miss"
    /\ board.grid[call.row][call.col] = "Hit"

\* C3: is_game_over() is true iff every ship coordinate is Hit, which is iff
\* fire has been called on every ship coordinate: true on a board without
\* ships, false on a board with ships that was never fired at.
C3_GameOverIffAllHit ==
    /\ is_game_over(board) <=> \A rc \in ShipSet(board) : board.grid[rc[1]][rc[2]] = "Hit"
    /\ is_game_over(board) <=> ShipSet(board) \subseteq fired
    /\ board.ships = <<>> => is_game_over(board)
    /\ board.ships # <<>> /\ fired = {} => ~is_game_over(board)
    /\ call.op = "is_game_over" => call.ok = (ShipSet(board) \subseteq fired)

\* A board with one 2-cell ship on which is_game_over has returned true
\* after exactly the two cells of the ship were fired at.
C3_Witness ==
    /\ Len(board.ships) = 2
    /\ fired = ShipSet(board)
    /\ call.op = "is_game_over"
    /\ call.ok

\* The cells of the run of size cells from (row, col).
Covered(row, col, size, direction) ==
    {CellAt(row, col, direction, i) : i \in 0 .. (size - 1)}

\* C5: can_place_ship returns false if the run would extend past the grid
\* (col + size > 10 horizontally, row + size > 10 vertically), false if a
\* covered cell is not Empty, and true otherwise; it does not change the
\* board.
C5_CanPlaceShipContract ==
    [][call'.op = "can_place_ship" =>
          LET past == IF call'.direction
                      THEN call'.col + call'.size > 10
                      ELSE call'.row + call'.size > 10
              run  == Covered(call'.row, call'.col, call'.size, call'.direction)
          IN  /\ board' = board
              /\ past => ~call'.ok
              /\ ~past /\ (\E rc \in run : board.grid[rc[1]][rc[2]] # "Empty") => ~call'.ok
              /\ ~past /\ (\A rc \in run : board.grid[rc[1]][rc[2]] = "Empty") => call'.ok]_vars

\* can_place_ship has returned false for a run inside the grid whose second
\* cell is Miss.
C5_Witness ==
    /\ call.op = "can_place_ship"
    /\ ~call.ok
    /\ call.size = 2
    /\ ~call.direction
    /\ call.row + call.size <= 10
    /\ board.grid[call.row][call.col] = "Empty"
    /\ board.grid[call.row + 1][call.col] = "Miss"

----------------------------------------------------------------------------
(* display *)

\* A board with the ships taken away: every Ship cell is Empty and the
\* ship-coordinate collection is empty.
WithoutShips(b) ==
    [grid  |-> [r \in Index |-> [c \in Index |->
                    IF b.grid[r][c] = "Ship" THEN "Empty" ELSE b.grid[r][c]]],
     ships |-> <<>>]

\* What the rendering in lines shows for the cell (r, c) of the grid: the
\* first line is the header and the first item of a line is the row number.
Shown(lines, r, c) == lines[r + 2][c + 2]

Blank == [text |-> <<" ", " ", " ">>, colour |-> "none"]

Label(text) == [text |-> text, colour |-> "none"]

\* C11: display leaves the board as it is, and what it writes is determined
\* by the grid and the flag: eleven lines of eleven items, the same header
\* and row numbers for every board, and for the cells of one state one and
\* the same item.  Hit cells are shown in red and Miss cells in cyan, whatever
\* the flag; with hide_ships Empty and Ship cells are shown as the same blank,
\* without it as two different items.  So with hide_ships the rendering is
\* that of the board without its ships: boards that agree on their Hit and
\* Miss cells are rendered alike.
C11_DisplayPure ==
    [][call'.op = "display" =>
          LET lines  == screen'.lines
              hide   == screen'.hide_ships
              items  == [st \in CellState |->
                            UNION {{Shown(lines, r, c) :
                                      c \in {d \in Index : board.grid[r][d] = st}} :
                                   r \in Index}]
          IN  /\ board' = board
              /\ fired' = fired
              /\ Len(lines) = BOARD_SIZE + 1
              /\ \A k \in 1 .. (BOARD_SIZE + 1) : Len(lines[k]) = BOARD_SIZE + 1
              /\ lines[1][1] = Blank
              /\ \A c \in Index : lines[1][c + 2] = Label(<<" ", Digits[c + 1], " ">>)
              /\ \A r \in Index : lines[r + 2][1] = Label(<<" ", Digits[r + 1], " ">>)
              /\ \A st \in CellState : Cardinality(items[st]) <= 1
              /\ \A it \in items["Hit"] : it.colour = "red"
              /\ \A it \in items["Miss"] : it.colour = "cyan"
              /\ \A it \in items["Empty"] \cup items["Ship"] : it.colour = "none"
              /\ Blank \notin items["Hit"] \cup items["Miss"]
              /\ IF hide
                 THEN /\ items["Empty"] \cup items["Ship"] \subseteq {Blank}
                      /\ lines = display(WithoutShips(board), TRUE)
                 ELSE /\ Blank \notin items["Empty"] \cup items["Ship"]
                      /\ items["Empty"] \cap items["Ship"] = {}
    ]_vars

\* A board with a Ship, a Hit, a Miss and an Empty cell has been displayed
\* with hide_ships.
C11_Witness ==
    /\ call.op = "display"
    /\ screen.hide_ships
    /\ \A st \in CellState : \E r \in Index, c \in Index : board.grid[r][c] = st
    /\ board # WithoutShips(board)

----------------------------------------------------------------------------
(* place_ship terminates *)

\* C12: in every state of the setup there is a (row, col, orientation) for
\* which can_place_ship is true for the size of the next ship, and when the
\* generator is fair every place_ship call returns: the setup of the board
\* completes.
C12_PlacementSucceeds ==
    /\ [](pc \in PlayerSetupLines =>
             \E row \in Index, col \in Index, direction \in BOOLEAN :
                 can_place_ship(player_board, row, col, FleetSizeAt(pc), direction))
    /\ <>(pc = 143)

\* The last ship is about to be placed on a board on which some of the
\* followed draws are rejected and fewer than a quarter of them fit.
C12_Witness ==
    /\ pc = 141
    /\ Len(player_board.ships) = 15
    /\ 4 * Cardinality({d \in FleetDraws :
                          can_place_ship(player_board, d.row, d.col, FleetSizeAt(pc),
                                         d.direction)})
          < Cardinality(FleetDraws)

----------------------------------------------------------------------------
(* The precondition of fire *)

InRange(move) ==
    /\ Len(move) = 2
    /\ 0 <= move[1] /\ move[1] < BOARD_SIZE
    /\ 0 <= move[2] /\ move[2] < BOARD_SIZE

\* C13: every call of fire in the game loop has row < 10 and col < 10: the
\* pair get_player_input returned and the pair generate_opponent_move
\* returned are in range, every pair the generator can return is, and main
\* never stops in the index of fire.
C13_FireInRange ==
    /\ pc # 80
    /\ result # "panic"
    /\ player_move # NoMove => InRange(player_move)
    /\ opponent_move # NoMove => InRange(opponent_move)
    /\ pc = 168 => \A move \in generate_opponent_move : InRange(move)

\* Both sides have fired at the cell in the last column of the first row.
C13_Witness ==
    /\ pc = 192
    /\ player_move = <<0, BOARD_SIZE - 1>>
    /\ opponent_move = <<0, BOARD_SIZE - 1>>

----------------------------------------------------------------------------
(* Shots at resolved cells *)

\* C14: a valid line that names a cell of the opponent's board that is Hit
\* or Miss is accepted: main leaves the prompt with that pair as the player's
\* move, the shot is reported as a miss, the opponent's board stays as it
\* was; and after a player's shot reported as a miss the next step is the
\* opponent's shot.
C14_RepeatShotAccepted ==
    [][/\ pc = 160 /\ ValidLine(input') /\ Resolved(opponent_board, LineMove(input')) =>
             /\ pc' = 168
             /\ player_move' = LineMove(input')
             /\ shooter' = "player"
             /\ result' = "Miss"
             /\ msg' = MsgYouMissed
             /\ opponent_board' = opponent_board
             /\ player_board' = player_board
       /\ pc = 168 /\ result = "Miss" =>
             /\ pc' = 192
             /\ shooter' = "opponent"
             /\ Resolved(player_board', opponent_move')]_vars

\* In a later round the player has shot again at a cell that is Hit; the
\* shot was reported as a miss and the opponent is to fire.
C14_Witness ==
    /\ pc = 168
    /\ opponent_move # NoMove
    /\ result = "Miss"
    /\ msg = MsgYouMissed
    /\ opponent_board.grid[player_move[1]][player_move[2]] = "Hit"

----------------------------------------------------------------------------
(* What a shot leaves unchanged *)

\* The two grids agree on every cell but, possibly, the one move names.
SameBut(before, after, move) ==
    \A rc \in Cells : rc # move => after[rc[1]][rc[2]] = before[rc[1]][rc[2]]

\* C15: once the setup of a board is over its ship-coordinate collection
\* never changes; the player's shot leaves the player's board as it was and
\* changes no cell of the opponent's board but the one fired at; the
\* opponent's shot leaves the opponent's board as it was and changes no cell
\* of the player's board but the one fired at; no other step changes a board.
C15_ShotFrame ==
    [][/\ pc >= 143 => player_board'.ships = player_board.ships
       /\ pc >= 160 => opponent_board'.ships = opponent_board.ships
       /\ pc \in OpponentSetupLines => player_board' = player_board
       /\ pc = 160 =>
             /\ player_board' = player_board
             /\ SameBut(opponent_board.grid, opponent_board'.grid, player_move')
       /\ pc = 168 =>
             /\ opponent_board' = opponent_board
             /\ SameBut(player_board.grid, player_board'.grid, opponent_move')
       /\ pc \in {192, 205} =>
             /\ player_board' = player_board
             /\ opponent_board' = opponent_board]_vars

\* The player's shot has hit; the opponent's board holds 17 ship coordinates
\* and the player's board cells the opponent has hit and missed.
C15_Witness ==
    /\ pc = 168
    /\ result = "Hit"
    /\ opponent_board.grid[player_move[1]][player_move[2]] = "Hit"
    /\ Len(opponent_board.ships) = 17
    /\ \E rc \in Cells : player_board.grid[rc[1]][rc[2]] = "Hit"
    /\ \E rc \in Cells : player_board.grid[rc[1]][rc[2]] = "Miss"

----------------------------------------------------------------------------
(* The opponent's targets *)

\* C16: at every opponent turn, whatever was fired before, the opponent's
\* shot at each of the 100 cells of the player's board is a possible next
\* step, the cells that are Hit or Miss included.
C16_OpponentAnyCell ==
    pc = 168 /\ ~Sunk(opponent_board) =>
        \A rc \in Cells : ENABLED (OpponentShot(rc) /\ UNCHANGED shots)

\* The opponent has fired at a cell of the player's board that an earlier
\* round's shot of the opponent had hit.
C16_Witness ==
    /\ pc = 192
    /\ shooter = "opponent"
    /\ result = "Miss"
    /\ msg = MsgOppMissed
    /\ player_board.grid[opponent_move[1]][opponent_move[2]] = "Hit"

----------------------------------------------------------------------------
(* One board is game-over at the end *)

\* When the game has terminated exactly one board is game-over, the
\* opponent's after the victory message and the player's after the defeat
\* message, and the last shot, which was the winner's, was a hit.
EndsWithOneSunk ==
    pc = 205 =>
        /\ Sunk(opponent_board) # Sunk(player_board)
        /\ msg = MsgVictory =>
              /\ Sunk(opponent_board)
              /\ shooter = "player"
              /\ opponent_board.grid[player_move[1]][player_move[2]] = "Hit"
        /\ msg = MsgDefeat =>
              /\ Sunk(player_board)
              /\ shooter = "opponent"
              /\ player_board.grid[opponent_move[1]][opponent_move[2]] = "Hit"
        /\ result = "Hit"

\* C17 as stated: in no reachable state are both boards game-over, and the
\* game ends with exactly one board game-over after a shot that hit.
C17_Original ==
    /\ ~(Sunk(player_board) /\ Sunk(opponent_board))
    /\ EndsWithOneSunk

\* C17, amended: in no reachable state other than those before the first
\* ship is placed (line 137, where both boards have no ships) are both boards
\* game-over, and the game ends with exactly one board game-over after a
\* shot that hit.
C17_NotBothGameOver ==
    /\ pc # 137 => ~(Sunk(player_board) /\ Sunk(opponent_board))
    /\ EndsWithOneSunk

\* The game has ended with the defeat message after a hit, with one Ship
\* cell left on the opponent's board.
C17_Witness ==
    /\ pc = 205
    /\ msg = MsgDefeat
    /\ result = "Hit"
    /\ Sunk(player_board)
    /\ Cardinality({rc \in Cells : opponent_board.grid[rc[1]][rc[2]] = "Ship"}) = 1

----------------------------------------------------------------------------
(* The number of shots of a game *)

\* The cells of a board that a shot has resolved.
ResolvedCells(b) == {rc \in Cells : b.grid[rc[1]][rc[2]] \in {"Hit", "Miss"}}

\* C18: in a game in which the player never fires twice at the same cell of
\* the opponent's board (every shot of the player resolved a cell of its
\* own) the player fires at most 100 shots and is never prompted for a 101st;
\* the game does not end with the victory message before the player's 17th
\* shot nor with the defeat message before the opponent's 17th shot.
C18_ShotBounds ==
    /\ shots.player = Cardinality(ResolvedCells(opponent_board))
    /\ shots.player <= 100
    /\ pc = 160 => shots.player < 100
    /\ pc = 205 /\ msg = MsgVictory => shots.player >= 17
    /\ pc = 205 /\ msg = MsgDefeat => shots.opponent >= 17

\* The game has ended with the victory message at the player's 100th shot,
\* the opponent having fired 99 times and hit 16 times.
C18_Witness ==
    /\ pc = 205
    /\ msg = MsgVictory
    /\ shots.player = 100
    /\ shots.opponent = 99
    /\ Cardinality(ResolvedCells(player_board)) = 16

\* A game has ended with the victory message at the player's 17th shot, and
\* one with the defeat message at the opponent's 17th shot.
C18_EarliestEnd ==
    /\ pc = 205
    /\ shots.opponent + 1 >= shots.player
    /\ \/ msg = MsgVictory /\ shots.player = 17
       \/ msg = MsgDefeat /\ shots.opponent = 17

----------------------------------------------------------------------------
(* The game terminates *)

\* C19: when the opponent's target selection is fair and the player
\* eventually types an accepted line and acknowledges at each prompt, the
\* game terminates, with the victory or the defeat message, whatever cells
\* the player fires at.
C19_Terminates ==
    /\ <>(pc = 205)
    /\ [](pc = 205 => msg \in {MsgVictory, MsgDefeat})
    /\ [][PlayerAccepted <=> LivePlayerTurn /\ pc' # 160]_vars

\* The start of a round after a round in which both sides fired at a cell
\* that was resolved already, the player typing the line of the round
\* before: the same round again leads back to this state.
C19_Witness ==
    /\ pc = 160
    /\ Resolved(opponent_board, player_move)
    /\ Resolved(player_board, opponent_move)
    /\ input = MoveLine(player_move)
    /\ result = "Miss"
    /\ msg = MsgOppMissed
    /\ ENABLED (PlayerAccepted /\ player_move' = player_move /\ opponent_board' = opponent_board)
    /\ opponent_move \in Targets(player_board)

====
